---- MODULE Spec2Model ----
(***************************************************************************)
(* Crossword construction of Siga-IA (src/App.tsx, handleGeneratePuzzle):  *)
(* the word normalizer, canPlaceWord, placeWordOnGrid, the greedy          *)
(* placement loop and the auto-save of the generated puzzle.               *)
(*                                                                         *)
(* A word or a clue is a sequence of one-character strings.  The grid is   *)
(* the 30 x 30 array newGrid; it is kept as a function whose domain is the *)
(* set of <<row, col>> of the non-null cells, so "newGrid[r][c] is null"   *)
(* reads "<<r, c>> \notin DOMAIN grid".  An optional number of a cell      *)
(* (clueNumber, across, down) that is not set is 0: clue numbers start     *)
(* at 1.                                                                   *)
(***************************************************************************)
EXTENDS Integers, Sequences, FiniteSets, TLC

(* const GRID_SIZE = 30 *)
GRID_SIZE == 30

(* ---- bounds of the model ---- *)
(* longest list of entries typed into the form *)
MaxEntries == 3
(* number of calls of handleGeneratePuzzle in one behaviour *)
MaxRuns == 1
(* the most calls of handleInputChange in a session *)
MaxTyped == 2

NULL == 0

(***************************************************************************)
(* normalizeString and trim                                                *)
(***************************************************************************)

(* the combining marks U+0300..U+036F that occur in the model's alphabet *)
CombiningMarks == {"U+0301", "U+0303", "U+0327"}

(* String.prototype.normalize("NFD") on one character: a precomposed letter
   (U+00E1 a-acute, U+00E3 a-tilde, U+00C1 A-acute, U+00E9 e-acute,
   U+00E7 c-cedilla) becomes its base letter followed by a combining mark *)
NFDChar(c) ==
    CASE c = "U+00E1" -> <<"a", "U+0301">>
      [] c = "U+00E3" -> <<"a", "U+0303">>
      [] c = "U+00C1" -> <<"A", "U+0301">>
      [] c = "U+00E9" -> <<"e", "U+0301">>
      [] c = "U+00E7" -> <<"c", "U+0327">>
      [] OTHER        -> <<c>>

(* String.prototype.toUpperCase on one character *)
ToUpperChar(c) ==
    CASE c = "a" -> "A" [] c = "b" -> "B" [] c = "c" -> "C" [] c = "d" -> "D"
      [] c = "e" -> "E" [] c = "g" -> "G" [] c = "l" -> "L" [] c = "o" -> "O"
      [] c = "s" -> "S" [] c = "t" -> "T" [] c = "u" -> "U"
      [] OTHER   -> c

RECURSIVE Decompose(_)
Decompose(str) ==
    IF str = <<>> THEN <<>> ELSE NFDChar(Head(str)) \o Decompose(Tail(str))

(* .replace(/[U+0300-U+036F]/g, "") *)
StripMarks(str) == SelectSeq(str, LAMBDA c : c \notin CombiningMarks)

ToUpperCase(str) == [n \in 1..Len(str) |-> ToUpperChar(str[n])]

(* str ? str.normalize("NFD").replace(/[U+0300-U+036F]/g, "").toUpperCase() : '' *)
normalizeString(str) ==
    IF str = <<>> THEN <<>> ELSE ToUpperCase(StripMarks(Decompose(str)))

RECURSIVE TrimStart(_)
TrimStart(s) ==
    IF s # <<>> /\ Head(s) = " " THEN TrimStart(Tail(s)) ELSE s

RECURSIVE TrimEnd(_)
TrimEnd(s) ==
    IF s # <<>> /\ s[Len(s)] = " " THEN TrimEnd(SubSeq(s, 1, Len(s) - 1)) ELSE s

(* String.prototype.trim *)
Trim(s) == TrimEnd(TrimStart(s))

(***************************************************************************)
(* The word list of handleGeneratePuzzle: map, filter, dedupe, sort        *)
(***************************************************************************)

MapEntry(entry) == [word |-> normalizeString(entry.word), clue |-> Trim(entry.clue)]

KeepItem(item) == Len(item.word) > 1 /\ Len(item.clue) > 0

(* .map(entry => ({word: normalizeString(entry.word), clue: entry.clue.trim()}))
   .filter(item => item.word.length > 1 && item.clue.length > 0) *)
MapFilter(entries) ==
    SelectSeq([n \in 1..Len(entries) |-> MapEntry(entries[n])], KeepItem)

(* the value of the first insertion is kept *)
DedupeByWord_KeepFirst(ws) ==
    SelectSeq(ws, LAMBDA x : \E n \in 1..Len(ws) :
                 ws[n] = x /\ \A m \in 1..(n - 1) : ws[m].word # x.word)

(* [...new Map(words.map(item => [item.word, item])).values()]:
   a Map keeps a key at the position of its first insertion and the value of
   its last one *)
DedupeByWord(ws) ==
    LET firsts == SelectSeq([n \in 1..Len(ws) |-> n],
                     LAMBDA n : \A m \in 1..(n - 1) : ws[m].word # ws[n].word)
        lastOf(n) == CHOOSE m \in n..Len(ws) :
                        /\ ws[m].word = ws[n].word
                        /\ \A q \in (m + 1)..Len(ws) : ws[q].word # ws[n].word
    IN  [x \in 1..Len(firsts) |-> ws[lastOf(firsts[x])]]

(* (a, b) => b.word.length - a.word.length is negative: a goes before b *)
LongerFirst(a, b) == Len(b.word) - Len(a.word) < 0

(* x inserted into the sorted s after every element it does not go before *)
RECURSIVE InsertByLength(_, _)
InsertByLength(x, s) ==
    IF s = <<>> THEN <<x>>
    ELSE IF LongerFirst(x, Head(s)) THEN <<x>> \o s
         ELSE <<Head(s)>> \o InsertByLength(x, Tail(s))

(* words.sort((a, b) => b.word.length - a.word.length): Array.prototype.sort
   is stable *)
RECURSIVE SortByLength(_)
SortByLength(s) ==
    IF s = <<>> THEN <<>>
    ELSE InsertByLength(s[Len(s)], SortByLength(SubSeq(s, 1, Len(s) - 1)))

(* the list  words  at line 1001 *)
NormalizedWords(entries) == SortByLength(DedupeByWord(MapFilter(entries)))

(* a single word is let through *)
TooFewWords_One(ws) == Len(ws) < 1

(* if (words.length < 2) throw *)
TooFewWords(ws) == Len(ws) < 2

(***************************************************************************)
(* canPlaceWord                                                            *)
(***************************************************************************)

(* newGrid[r][c] is a cell (truthy) *)
Occupied(grid, r, c) == <<r, c>> \in DOMAIN grid

(* the letter of an occupied cell is not compared *)
LetterClash_Unchecked(grid, r, c, ch) == FALSE

(* if (cell && cell.letter !== word[i]) return false *)
LetterClash(grid, r, c, ch) == Occupied(grid, r, c) /\ grid[<<r, c>>].letter # ch

(* the rows above and below an empty cell are not looked at *)
SideTouchAcross_Unchecked(grid, r, c) == FALSE

(* across: if (!cell) { row > 0 && newGrid[row - 1][col + i] ...
                         row < GRID_SIZE - 1 && newGrid[row + 1][col + i] ... } *)
SideTouchAcross(grid, r, c) ==
    /\ ~Occupied(grid, r, c)
    /\ \/ (r > 0 /\ Occupied(grid, r - 1, c))
       \/ (r < GRID_SIZE - 1 /\ Occupied(grid, r + 1, c))

(* down: if (!cell) { col > 0 && newGrid[row + i][col - 1] ...
                       col < GRID_SIZE - 1 && newGrid[row + i][col + 1] ... } *)
SideTouchDown(grid, r, c) ==
    /\ ~Occupied(grid, r, c)
    /\ \/ (c > 0 /\ Occupied(grid, r, c - 1))
       \/ (c < GRID_SIZE - 1 /\ Occupied(grid, r, c + 1))

(* the cell before the start or the cell after the end is occupied *)
EndTouch(grid, len, row, col, direction) ==
    IF direction = "across"
    THEN \/ (col > 0 /\ Occupied(grid, row, col - 1))
         \/ (col + len < GRID_SIZE /\ Occupied(grid, row, col + len))
    ELSE \/ (row > 0 /\ Occupied(grid, row - 1, col))
         \/ (row + len < GRID_SIZE /\ Occupied(grid, row + len, col))

canPlaceWord(grid, word, row, col, direction) ==
    IF row < 0 \/ col < 0 THEN FALSE
    ELSE IF direction = "across"
    THEN /\ ~(col + Len(word) > GRID_SIZE)
         /\ ~EndTouch(grid, Len(word), row, col, direction)
         /\ \A i \in 0..(Len(word) - 1) :
               /\ ~LetterClash(grid, row, col + i, word[i + 1])
               /\ ~SideTouchAcross(grid, row, col + i)
    ELSE /\ ~(row + Len(word) > GRID_SIZE)
         /\ ~EndTouch(grid, Len(word), row, col, direction)
         /\ \A i \in 0..(Len(word) - 1) :
               /\ ~LetterClash(grid, row + i, col, word[i + 1])
               /\ ~SideTouchDown(grid, row + i, col)

(* The index pairs <<r, c>> of the reads newGrid[r][c] that canPlaceWord
   performs, in the order of the code and up to its return.  step(n): the
   reads of the loop body for i = n and of the iterations after it. *)
RECURSIVE LoopReads(_, _, _, _, _, _)
LoopReads(grid, word, row, col, direction, n) ==
    IF n >= Len(word) THEN {}
    ELSE LET r     == IF direction = "across" THEN row ELSE row + n
             c     == IF direction = "across" THEN col + n ELSE col
             sideA == IF direction = "across" THEN <<r - 1, c>> ELSE <<r, c - 1>>
             sideB == IF direction = "across" THEN <<r + 1, c>> ELSE <<r, c + 1>>
             hasA  == IF direction = "across" THEN row > 0 ELSE col > 0
             hasB  == IF direction = "across" THEN row < GRID_SIZE - 1
                                              ELSE col < GRID_SIZE - 1
             rest  == LoopReads(grid, word, row, col, direction, n + 1)
         IN  {<<r, c>>} \cup
             (IF Occupied(grid, r, c)
              THEN IF grid[<<r, c>>].letter # word[n + 1] THEN {} ELSE rest
              ELSE IF hasA /\ Occupied(grid, sideA[1], sideA[2]) THEN {sideA}
              ELSE (IF hasA THEN {sideA} ELSE {}) \cup
                   (IF hasB /\ Occupied(grid, sideB[1], sideB[2]) THEN {sideB}
                    ELSE (IF hasB THEN {sideB} ELSE {}) \cup rest))

CellsRead(grid, word, row, col, direction) ==
    LET len     == Len(word)
        before  == IF direction = "across" THEN <<row, col - 1>> ELSE <<row - 1, col>>
        after   == IF direction = "across" THEN <<row, col + len>> ELSE <<row + len, col>>
        hasB    == IF direction = "across" THEN col > 0 ELSE row > 0
        hasA    == IF direction = "across" THEN col + len < GRID_SIZE
                                           ELSE row + len < GRID_SIZE
        tooLong == IF direction = "across" THEN col + len > GRID_SIZE
                                           ELSE row + len > GRID_SIZE
    IN  IF row < 0 \/ col < 0 \/ tooLong THEN {}
        ELSE IF hasB /\ Occupied(grid, before[1], before[2]) THEN {before}
        ELSE (IF hasB THEN {before} ELSE {}) \cup
             (IF hasA /\ Occupied(grid, after[1], after[2]) THEN {after}
              ELSE (IF hasA THEN {after} ELSE {}) \cup
                   LoopReads(grid, word, row, col, direction, 0))

(***************************************************************************)
(* placeWordOnGrid                                                         *)
(***************************************************************************)

(* the letters are written one cell too far along the word *)
WordCells_Shifted(len, row, col, direction) ==
    [n \in 1..len |-> IF direction = "across" THEN <<row, col + n>>
                                               ELSE <<row + n, col>>]

(* the cells r, c of the loop at lines 1053-1055, as a sequence *)
WordCells(len, row, col, direction) ==
    [n \in 1..len |-> IF direction = "across" THEN <<row, col + (n - 1)>>
                                               ELSE <<row + (n - 1), col>>]

CellSet(len, row, col, direction) ==
    {WordCells(len, row, col, direction)[n] : n \in 1..len}

(* the number of the start cell is not looked up *)
ClueNumFor_NoReuse(numberLocations, clueCounter, posKey) == clueCounter

(* clueNum: numberLocations.get(posKey) if present, else clueCounter *)
ClueNumFor(numberLocations, clueCounter, posKey) ==
    IF posKey \in DOMAIN numberLocations THEN numberLocations[posKey]
    ELSE clueCounter

(* if (!newGrid[r][c]) newGrid[r][c] = { letter: word[i] } *)
LetterAfter(grid, pos, ch) ==
    IF pos \in DOMAIN grid THEN grid[pos].letter ELSE ch

(* the cell at the i-th (from 1) position of the word after the loop body *)
CellAfter(grid, pos, ch, direction, clueNum, n) ==
    LET old == IF pos \in DOMAIN grid THEN grid[pos]
               ELSE [letter |-> ch, clueNumber |-> NULL, across |-> NULL, down |-> NULL]
    IN  [letter     |-> LetterAfter(grid, pos, ch),
         clueNumber |-> IF n = 1 THEN clueNum ELSE old.clueNumber,
         across     |-> IF direction = "across" THEN clueNum ELSE old.across,
         down       |-> IF direction = "down" THEN clueNum ELSE old.down]

(* st = [grid, clues, clueCounter, numberLocations]: the variables the closure
   placeWordOnGrid writes; the result is their value after the call *)
placeWordOnGrid(st, wordObj, row, col, direction) ==
    LET word    == wordObj.word
        posKey  == <<row, col>>
        clueNum == ClueNumFor(st.numberLocations, st.clueCounter, posKey)
        cells   == WordCells(Len(word), row, col, direction)
        idx(pos) == CHOOSE n \in 1..Len(word) : cells[n] = pos
        entry   == [number |-> clueNum, clue |-> wordObj.clue]
    IN  [grid |-> [pos \in (DOMAIN st.grid) \cup CellSet(Len(word), row, col, direction) |->
                      IF pos \in CellSet(Len(word), row, col, direction)
                      THEN CellAfter(st.grid, pos, word[idx(pos)], direction, clueNum, idx(pos))
                      ELSE st.grid[pos]],
         clues |-> IF direction = "across"
                   THEN [st.clues EXCEPT !.across = Append(@, entry)]
                   ELSE [st.clues EXCEPT !.down = Append(@, entry)],
         clueCounter |-> IF posKey \in DOMAIN st.numberLocations
                         THEN st.clueCounter ELSE st.clueCounter + 1,
         numberLocations |->
             IF posKey \in DOMAIN st.numberLocations THEN st.numberLocations
             ELSE [k \in (DOMAIN st.numberLocations) \cup {posKey} |->
                      IF k = posKey THEN clueNum ELSE st.numberLocations[k]]]

(***************************************************************************)
(* The best-fit search for one pending word (lines 1074-1097)              *)
(***************************************************************************)

(* the k of the innermost loop where wordObj.word[j] === pWord.word[k];
   j and k count from 1 here *)
MatchesInWord(word, j, placedWords, p) ==
    SelectSeq([k \in 1..Len(placedWords[p].word) |-> <<j, p, k>>],
              LAMBDA t : word[j] = placedWords[p].word[t[3]])

RECURSIVE MatchesForLetter(_, _, _, _)
MatchesForLetter(word, j, placedWords, p) ==
    IF p > Len(placedWords) THEN <<>>
    ELSE MatchesInWord(word, j, placedWords, p)
            \o MatchesForLetter(word, j, placedWords, p + 1)

(* every (j, pWord, k) with equal letters, in the order the three loops
   visit them *)
RECURSIVE Matches(_, _, _)
Matches(word, placedWords, j) ==
    IF j > Len(word) THEN <<>>
    ELSE MatchesForLetter(word, j, placedWords, 1) \o Matches(word, placedWords, j + 1)

(* the candidate lies two cells further along the placed word *)
CandidateOf_Apart(placedWords, t) ==
    LET pWord     == placedWords[t[2]]
        j         == t[1] - 1
        k         == t[3] - 1
        direction == IF pWord.direction = "across" THEN "down" ELSE "across"
    IN  [row |-> IF direction = "down" THEN pWord.row - j ELSE pWord.row + k + 2,
         col |-> IF direction = "down" THEN pWord.col + k + 2 ELSE pWord.col - j,
         direction |-> direction]

(* lines 1080-1082 *)
CandidateOf(placedWords, t) ==
    LET pWord     == placedWords[t[2]]
        j         == t[1] - 1
        k         == t[3] - 1
        direction == IF pWord.direction = "across" THEN "down" ELSE "across"
    IN  [row |-> IF direction = "down" THEN pWord.row - j ELSE pWord.row + k,
         col |-> IF direction = "down" THEN pWord.col + k ELSE pWord.col - j,
         direction |-> direction]

(* lines 1084-1088 *)
Intersections(grid, word, cand) ==
    Cardinality({l \in 0..(Len(word) - 1) :
        IF cand.direction = "across" THEN Occupied(grid, cand.row, cand.col + l)
        ELSE Occupied(grid, cand.row + l, cand.col)})

(* a candidate with as many intersections replaces the best one *)
Improves_OrEqual(intersections, maxIntersections) == intersections >= maxIntersections

(* if (intersections > maxIntersections) *)
Improves(intersections, maxIntersections) == intersections > maxIntersections

NoFit == [found |-> FALSE, row |-> 0, col |-> 0, direction |-> "across",
          maxIntersections |-> 0]

(* the loops over j, pWord, k: best is (bestFit, maxIntersections) so far *)
RECURSIVE ScanMatches(_, _, _, _, _)
ScanMatches(grid, word, placedWords, ms, best) ==
    IF ms = <<>> THEN best
    ELSE LET cand == CandidateOf(placedWords, Head(ms))
             n    == Intersections(grid, word, cand)
         IN  ScanMatches(grid, word, placedWords, Tail(ms),
                 IF /\ canPlaceWord(grid, word, cand.row, cand.col, cand.direction)
                    /\ Improves(n, best.maxIntersections)
                 THEN [found |-> TRUE, row |-> cand.row, col |-> cand.col,
                       direction |-> cand.direction, maxIntersections |-> n]
                 ELSE best)

BestFit(grid, word, placedWords) ==
    ScanMatches(grid, word, placedWords, Matches(word, placedWords, 1), NoFit)

(* a single crossing is not enough *)
Commits_TwoCrossings(best) == best.found /\ best.maxIntersections > 1

(* if (bestFit && maxIntersections > 0) *)
Commits(best) == best.found /\ best.maxIntersections > 0

(***************************************************************************)
(* The end of the run: clue sort and the saved crossword                   *)
(***************************************************************************)

(* (a, b) => a.number - b.number is negative: a goes before b *)
SmallerNumberFirst(a, b) == a.number - b.number < 0

RECURSIVE InsertByNumber(_, _)
InsertByNumber(x, s) ==
    IF s = <<>> THEN <<x>>
    ELSE IF SmallerNumberFirst(x, Head(s)) THEN <<x>> \o s
         ELSE <<Head(s)>> \o InsertByNumber(x, Tail(s))

(* the lists are left in the order of placement *)
SortByNumber_Unsorted(s) == s

(* newClues.across.sort((a, b) => a.number - b.number), stable *)
RECURSIVE SortByNumber(_)
SortByNumber(s) ==
    IF s = <<>> THEN <<>>
    ELSE InsertByNumber(s[Len(s)], SortByNumber(SubSeq(s, 1, Len(s) - 1)))

(* placedWords.map(({ word, clue }) => ({ word, clue })) *)
FinalWordEntries(pws) ==
    [n \in 1..Len(pws) |-> [word |-> pws[n].word, clue |-> pws[n].clue]]

(* words.map(w => w.word), the words named by the message of line 1112 *)
WordsOf(ws) == [n \in 1..Len(ws) |-> ws[n].word]

NoError         == [kind |-> "none", words |-> <<>>]
(* "Sao necessarias pelo menos 2 palavras validas." *)
ValidationError == [kind |-> "validation", words |-> <<>>]
(* the message names the first unplaced word only *)
UnplacedWarning_FirstOnly(ws) == [kind |-> "unplaced", words |-> <<ws[1].word>>]

(* `Nao foi possivel encaixar: ${...join(', ')}` *)
UnplacedWarning(ws) == [kind |-> "unplaced", words |-> WordsOf(ws)]

(* words.splice(i, 1), i counted from 0 *)
Splice(ws, i) == SubSeq(ws, 1, i) \o SubSeq(ws, i + 2, Len(ws))

(* the for loop starts at the first pending word *)
ScanStart_First(ws) == 0

(* for (let i = words.length - 1; i >= 0; i--): the first i of a pass *)
ScanStart(ws) == Len(ws) - 1

(* off by one: attempts <= words.length *)
WhileCond_OffByOne(ws, att) == Len(ws) > 0 /\ att <= Len(ws)

(* while (words.length > 0 && attempts < words.length) *)
WhileCond(ws, att) == Len(ws) > 0 /\ att < Len(ws)

(* attempts++ after every pass *)
AttemptsAfterPass_Counts(placed, att) == att + 1

(* if (!placedInPass) attempts++ *)
AttemptsAfterPass(placed, att) == IF ~placed THEN att + 1 ELSE att

(* Math.floor(GRID_SIZE / 2) *)
StartRow == GRID_SIZE \div 2

(* Math.ceil instead of Math.floor *)
StartCol_Ceil(len) == (GRID_SIZE - len + 1) \div 2

(* Math.floor((GRID_SIZE - firstWord.word.length) / 2) *)
StartCol(len) == (GRID_SIZE - len) \div 2

(***************************************************************************)
(* Inputs                                                                  *)
(***************************************************************************)

Entry(w, c) == [word |-> w, clue |-> c]

(* entries as the user or the word suggestion service puts them in the form *)
PoolPets ==
    { Entry(<<"G", "A", "T", "O">>, <<"p">>),
      Entry(<<"C", "A", "S", "A">>, <<"q">>),
      Entry(<<"S", "O", "L">>, <<"e">>),
      Entry(<<>>, <<"x">>),
      Entry(<<"g", "U+00E1", "t", "o">>, <<" ", "r", " ">>) }

PoolColours ==
    { Entry(<<"A", "Z", "U", "L">>, <<"1">>),
      Entry(<<"V", "E", "R", "D", "E">>, <<"2">>),
      Entry(<<"R", "O", "X", "O">>, <<"3">>),
      Entry(<<"L", "U", "Z">>, <<"4">>),
      Entry(<<"U">>, <<"5">>) }

PoolDense ==
    { Entry(<<"A", "C", "E">>, <<"t">>),
      Entry(<<"A", "C">>, <<"u">>),
      Entry(<<"A", "B", "C">>, <<"v">>),
      Entry(<<"A", "D">>, <<"w">>),
      Entry(<<"E", "D">>, <<"y">>),
      Entry(<<"E", "D", "A">>, <<"z">>) }

(* words of the greatest length the data model allows and of the least, and
   an entry whose clue is blank *)
PoolLong ==
    { Entry(<<"P", "A", "R", "A", "L", "E", "L", "E", "P", "I", "P", "E", "D", "O", "S">>, <<"6">>),
      Entry(<<"C", "O", "N", "S", "T", "I", "T", "U", "C", "I", "O", "N", "A", "I", "S">>, <<"7">>),
      Entry(<<"O", "S">>, <<"8">>),
      Entry(<<"L", "U", "A">>, <<" ">>) }

(* a phrase of 32 characters, two more than the grid is wide *)
OverlongWord == [n \in 1..32 |-> IF n = 1 THEN "A" ELSE IF n = 32 THEN "B" ELSE "X"]

(* entries the form accepts as typed: the word inputs have no maxLength and
   no pattern, so a phrase, a hyphenated word and a repeated word with a
   blank clue can be entered *)
PoolOdd ==
    { Entry(OverlongWord, <<"9">>),
      Entry(<<"A", " ", "B">>, <<"s">>),
      Entry(<<"A", "-", "B">>, <<"h">>),
      Entry(<<"A", "-", "B">>, <<" ">>) }

Pools == {PoolPets, PoolColours, PoolDense, PoolLong, PoolOdd}

SeqsUpTo(S, n) == UNION {[1..m -> S] : m \in 0..n}

InputLists == UNION {SeqsUpTo(P, MaxEntries) : P \in Pools}

(* a crossword saved by an earlier session: GATO across, CASA down *)
PriorCell(l, n, a, d) == [letter |-> l, clueNumber |-> n, across |-> a, down |-> d]

PriorCrossword ==
    [id |-> 1,
     wordEntries |-> << Entry(<<"G", "A", "T", "O">>, <<"p">>),
                        Entry(<<"C", "A", "S", "A">>, <<"q">>) >>,
     grid |-> ( <<15, 13>> :> PriorCell("G", 1, 1, 0)
             @@ <<15, 14>> :> PriorCell("A", 0, 1, 2)
             @@ <<15, 15>> :> PriorCell("T", 0, 1, 0)
             @@ <<15, 16>> :> PriorCell("O", 0, 1, 0)
             @@ <<14, 14>> :> PriorCell("C", 2, 0, 2)
             @@ <<16, 14>> :> PriorCell("S", 0, 0, 2)
             @@ <<17, 14>> :> PriorCell("A", 0, 0, 2) ),
     clues |-> [across |-> <<[number |-> 1, clue |-> <<"p">>]>>,
                down   |-> <<[number |-> 2, clue |-> <<"q">>]>>]]

(* a crossword saved by an earlier session: AC across, AD down from the
   same cell *)
SolvedCrossword ==
    [id |-> 1,
     wordEntries |-> << Entry(<<"A", "C">>, <<"u">>),
                        Entry(<<"A", "D">>, <<"w">>) >>,
     grid |-> ( <<15, 14>> :> PriorCell("A", 1, 1, 1)
             @@ <<15, 15>> :> PriorCell("C", 0, 1, 0)
             @@ <<16, 14>> :> PriorCell("D", 0, 0, 1) ),
     clues |-> [across |-> <<[number |-> 1, clue |-> <<"u">>]>>,
                down   |-> <<[number |-> 1, clue |-> <<"w">>]>>]]

(* the forms of the sessions in which the saved crossword is solved and
   edited: three words of which one finds no place, and a single word *)
SessionInputs ==
    { << Entry(<<"A", "D">>, <<"w">>), Entry(<<"E", "D">>, <<"y">>),
         Entry(<<"O", "S">>, <<"8">>) >>,
      << Entry(<<"E", "D">>, <<"y">>) >> }

(* what the user types into a cell (maxLength 1) or deletes from it *)
TypedValues == {<<>>, <<"U+00E1">>, <<"d">>}

(* the new text of a clue in the clue editor *)
ClueTexts == {<<"n">>}

(* a grid position that holds no cell in any puzzle of the model *)
EmptyCellSample == <<0, 0>>

(***************************************************************************)
(* CrosswordViewer (src/unnamed/part_000)                                  *)
(***************************************************************************)

(* null and undefined where the value is otherwise an object *)
NullObject == [isNull |-> TRUE]

(* useState<Record<string, string>>({}) *)
NoInput == [pos \in {} |-> <<>>]

(* the three useState initial values of lines 77-79 *)
InitialInteraction ==
    [userInput |-> NoInput, selectedCell |-> NullObject, isChecking |-> FALSE]

(* savedCrosswords.find(c => c.id === activeCrosswordId), App.tsx line 281;
   it is the viewer's puzzleData, because generatedPuzzle is only ever set
   to null; the viewer is rendered only when it is an object *)
activeCrossword(saved, id) ==
    LET hits == {n \in 1..Len(saved) : saved[n].id = id}
    IN  IF hits = {} THEN NullObject
        ELSE saved[CHOOSE n \in hits : \A m \in hits : n <= m]

(* the effect forgets the selection and the check only *)
AfterRender_KeepsInput(replaced, cur) ==
    IF replaced THEN [cur EXCEPT !.selectedCell = NullObject, !.isChecking = FALSE]
    ELSE cur

(* useEffect(() => {setUserInput({}); setIsChecking(false);
   setSelectedCell(null)}, [puzzleData]): it runs after the render in which
   puzzleData is another object, and a viewer that is mounted anew starts
   from the useState initial values *)
AfterRender(replaced, cur) == IF replaced THEN InitialInteraction ELSE cur

(* the input fields stay enabled *)
InputDisabled_Never(checking) == FALSE

(* <input ... disabled={isChecking} />, line 207: a disabled input delivers
   neither change nor click events *)
InputDisabled(checking) == checking

(* handleInputChange: value = normalizeString(e.target.value);
   setUserInput(prev => ({...prev, [`${row}-${col}`]: value})) *)
InputChange(cur, row, col, typedValue) ==
    [cur EXCEPT !.userInput = (<<row, col>> :> normalizeString(typedValue)) @@ @]

(* the selection jumps to the across word of every cell that has one *)
CellClick_NoToggle(grid, cur, row, col) ==
    IF <<row, col>> \notin DOMAIN grid
    THEN [cur EXCEPT !.selectedCell = NullObject]
    ELSE [cur EXCEPT !.selectedCell =
             [row |-> row, col |-> col,
              direction |-> IF grid[<<row, col>>].across # NULL THEN "across"
                                                                ELSE "down"]]

(* the direction of a fresh selection is always across *)
CellClick_AcrossAlways(grid, cur, row, col) ==
    IF <<row, col>> \notin DOMAIN grid
    THEN [cur EXCEPT !.selectedCell = NullObject]
    ELSE LET sel == cur.selectedCell
         IN  IF sel # NullObject /\ sel.row = row /\ sel.col = col THEN cur
             ELSE [cur EXCEPT !.selectedCell =
                      [row |-> row, col |-> col, direction |-> "across"]]

(* a call for a position without a cell resets the whole interaction *)
CellClick_EmptyResets(grid, cur, row, col) ==
    IF <<row, col>> \notin DOMAIN grid THEN InitialInteraction
    ELSE [cur EXCEPT !.selectedCell =
             [row |-> row, col |-> col,
              direction |-> IF grid[<<row, col>>].across # NULL THEN "across"
                                                                ELSE "down"]]

(* handleCellClick *)
CellClick(grid, cur, row, col) ==
    IF <<row, col>> \notin DOMAIN grid
    THEN [cur EXCEPT !.selectedCell = NullObject]
    ELSE LET cell == grid[<<row, col>>]
             sel  == cur.selectedCell
         IN  IF sel # NullObject /\ sel.row = row /\ sel.col = col
             THEN IF sel.direction = "across" /\ cell.down # NULL
                  THEN [cur EXCEPT !.selectedCell =
                           [row |-> row, col |-> col, direction |-> "down"]]
                  ELSE IF sel.direction = "down" /\ cell.across # NULL
                  THEN [cur EXCEPT !.selectedCell =
                           [row |-> row, col |-> col, direction |-> "across"]]
                  ELSE cur
             ELSE [cur EXCEPT !.selectedCell =
                      [row |-> row, col |-> col,
                       direction |-> IF cell.across # NULL THEN "across" ELSE "down"]]

(* the cell below for across and the cell to the right for down *)
NextCell_Swapped(row, col, direction) ==
    IF direction = "across" THEN <<row + 1, col>> ELSE <<row, col + 1>>

(* (row, col + 1) for across and (row + 1, col) for down, lines 103 and 105 *)
NextCell(row, col, direction) ==
    IF direction = "across" THEN <<row, col + 1>> ELSE <<row + 1, col>>

(* the cell input that has the focus after handleInputChange, lines 101-108:
   document.querySelector(...)?.focus() for the next cell when value and
   selectedCell are truthy, the next index is below GRID_SIZE and the grid
   holds a cell there; cur is the interaction before the call *)
FocusAfterInput(grid, cur, row, col, typedValue, focused) ==
    LET value == normalizeString(typedValue)
        next  == NextCell(row, col, cur.selectedCell.direction)
    IN  IF value # <<>> /\ cur.selectedCell # NullObject
        THEN IF /\ next[1] < GRID_SIZE
                /\ next[2] < GRID_SIZE
                /\ next \in DOMAIN grid
             THEN [row |-> next[1], col |-> next[2]]
             ELSE focused
        ELSE focused

(* a click on an enabled cell input gives it the focus (line 207); a call
   for a position that holds no cell has no input to focus *)
FocusAfterClick(grid, row, col, focused) ==
    IF <<row, col>> \in DOMAIN grid THEN [row |-> row, col |-> col] ELSE focused

(* the cell divs are keyed by position (lines 192 and 205): after a render
   with another grid the input that had the focus keeps it when the new
   grid has a cell at its position and is removed otherwise *)
FocusAfterRender(shown, focused) ==
    IF /\ shown # NullObject
       /\ focused # NullObject
       /\ <<focused.row, focused.col>> \in DOMAIN shown.grid
    THEN focused
    ELSE NullObject

(* handleCheck *)
Check(cur) == [cur EXCEPT !.isChecking = TRUE]

(* the solution of handleReveal: cell.letter under the key of every cell *)
Solution(grid) == [pos \in DOMAIN grid |-> <<grid[pos].letter>>]

(* handleReveal *)
Reveal(grid, cur) == [cur EXCEPT !.userInput = Solution(grid), !.isChecking = FALSE]

(* the selection outlives the reset *)
Reset_KeepsSelection(cur) == [cur EXCEPT !.userInput = NoInput, !.isChecking = FALSE]

(* handleReset *)
Reset(cur) == InitialInteraction

(* userInput[cellKey] || '' *)
InputAt(cur, pos) == IF pos \in DOMAIN cur.userInput THEN cur.userInput[pos] ELSE <<>>

(* isCorrect = isChecking && cell && userInput[cellKey] === cell.letter *)
isCorrect(grid, cur, pos) ==
    /\ cur.isChecking
    /\ pos \in DOMAIN cur.userInput
    /\ cur.userInput[pos] = <<grid[pos].letter>>

(* every cell that does not hold its letter is marked *)
isIncorrect_EmptyToo(grid, cur, pos) ==
    /\ cur.isChecking
    /\ InputAt(cur, pos) # <<grid[pos].letter>>

(* isIncorrect = isChecking && cell && userInput[cellKey] &&
                 userInput[cellKey] !== cell.letter *)
isIncorrect(grid, cur, pos) ==
    /\ cur.isChecking
    /\ pos \in DOMAIN cur.userInput
    /\ cur.userInput[pos] # <<>>
    /\ cur.userInput[pos] # <<grid[pos].letter>>

(***************************************************************************)
(* The clue editor (App.tsx lines 1159-1189)                               *)
(***************************************************************************)

(* newClues[direction].map(clue => clue.number === clueNumber
                                     ? {...clue, clue: newClueText} : clue) *)
ChangeClue(list, clueNumber, newClueText) ==
    [n \in 1..Len(list) |->
        IF list[n].number = clueNumber
        THEN [list[n] EXCEPT !.clue = newClueText] ELSE list[n]]

(* handleClueChange's updater *)
ClueChange(prevClues, direction, clueNumber, newClueText) ==
    IF prevClues = NullObject THEN NullObject
    ELSE IF direction = "across"
    THEN [prevClues EXCEPT !.across = ChangeClue(@, clueNumber, newClueText)]
    ELSE [prevClues EXCEPT !.down = ChangeClue(@, clueNumber, newClueText)]

(* prev.map(cw => cw.id === activeCrosswordId ? {...cw, clues: editedClues} : cw) *)
SaveClues(saved, id, clues) ==
    [n \in 1..Len(saved) |->
        IF saved[n].id = id THEN [saved[n] EXCEPT !.clues = clues] ELSE saved[n]]

(* prev.filter(c => c.id !== id) *)
WithoutCrossword(saved, id) == SelectSeq(saved, LAMBDA c : c.id # id)

(***************************************************************************)
(* State                                                                   *)
(***************************************************************************)

VARIABLES
    wordEntries,         \* crosswordFormData.wordEntries
    savedCrosswords,     \* savedCrosswords, newest first
    activeCrosswordId,   \* activeCrosswordId, NULL when none
    generatedPuzzle,     \* generatedPuzzle
    generationError,     \* generationError
    isLoading,           \* isLoading
    mobileView,          \* mobileView
    isEditingCrossword,  \* isEditingCrossword
    editedClues,         \* editedClues
    now,                 \* the clock read by Date.now()
    runs,                \* calls of handleGeneratePuzzle so far
    pc,                  \* "idle", "timer" (setTimeout pending), "while", "for"
    words,               \* words: the pending list
    newGrid, newClues, clueCounter, placedWords, numberLocations,
    attempts, i, placedInPass,
    passes,              \* passes of the outer while loop in this run
    pending0,            \* words.length when the loop is entered
    userInput,           \* the viewer's userInput: cell position -> text
    selectedCell,        \* the viewer's selectedCell, NullObject when none
    isChecking,          \* the viewer's isChecking
    focus,               \* the cell whose input has the keyboard focus,
                         \* NullObject when no cell input has it
    typed,               \* calls of handleInputChange so far
    discarded,           \* a puzzle that held input was replaced by another
    built                \* id -> the crossword as the construction saved it

appVars == <<wordEntries, savedCrosswords, activeCrosswordId, generatedPuzzle,
             generationError, isLoading, mobileView, isEditingCrossword,
             editedClues, now, runs>>

runVars == <<words, newGrid, newClues, clueCounter, placedWords,
             numberLocations, attempts, i, placedInPass, passes, pending0>>

interactionVars == <<userInput, selectedCell, isChecking, typed, discarded>>

viewerVars == <<interactionVars, focus>>

vars == <<appVars, runVars, pc, viewerVars, built>>

EmptyGrid == [pos \in {} |-> 0]

(* the values of the useState calls and of the locals before the first run *)
FreshSession ==
    /\ activeCrosswordId = NULL
    /\ generatedPuzzle = NULL
    /\ generationError = NoError
    /\ isLoading = FALSE
    /\ mobileView = "history"
    /\ isEditingCrossword = FALSE
    /\ editedClues = NullObject
    /\ now = 2
    /\ runs = 0
    /\ pc = "idle"
    /\ words = <<>>
    /\ newGrid = EmptyGrid
    /\ newClues = [across |-> <<>>, down |-> <<>>]
    /\ clueCounter = 1
    /\ placedWords = <<>>
    /\ numberLocations = EmptyGrid
    /\ attempts = 0
    /\ i = 0
    /\ placedInPass = FALSE
    /\ passes = 0
    /\ pending0 = 0
    /\ userInput = NoInput
    /\ selectedCell = NullObject
    /\ isChecking = FALSE
    /\ focus = NullObject
    /\ typed = 0
    /\ discarded = FALSE
    /\ built = [id \in {savedCrosswords[n].id : n \in 1..Len(savedCrosswords)} |->
                   activeCrossword(savedCrosswords, id)]

(* a session in which a form is filled in and a puzzle is constructed *)
Init ==
    /\ wordEntries \in InputLists
    /\ savedCrosswords = <<PriorCrossword>>
    /\ FreshSession

(* a session in which saved puzzles are solved, edited and deleted and a
   further puzzle is constructed *)
SessionInit ==
    /\ wordEntries \in SessionInputs
    /\ savedCrosswords = <<SolvedCrossword>>
    /\ FreshSession

(***************************************************************************)
(* Actions                                                                 *)
(***************************************************************************)

(* the puzzleData prop of the viewer; NullObject when no viewer is rendered *)
puzzleData == activeCrossword(savedCrosswords, activeCrosswordId)

(* the viewer's three state values *)
Interaction ==
    [userInput |-> userInput, selectedCell |-> selectedCell, isChecking |-> isChecking]

SetInteraction(next) ==
    /\ userInput' = next.userInput
    /\ selectedCell' = next.selectedCell
    /\ isChecking' = next.isChecking

(* the render that follows a handler of App and the viewer's effect after
   it; replaced: puzzleData is another object than in the render before *)
Render(replaced) ==
    /\ SetInteraction(AfterRender(replaced, Interaction))
    /\ discarded' = (discarded \/ (/\ replaced
                                   /\ userInput # NoInput
                                   /\ puzzleData' # NullObject))
    /\ UNCHANGED typed

(* a click on a button, on the history list or into another field takes
   the focus away from the cell inputs *)
Blur == focus' = NullObject

(* the button "Gerar Palavras Cruzadas" is disabled while isLoading or when
   wordEntries.filter(e => e.word && e.clue).length === 0 *)
GenerateEnabled ==
    /\ ~isLoading
    /\ \E n \in 1..Len(wordEntries) :
          wordEntries[n].word # <<>> /\ wordEntries[n].clue # <<>>

(* handleGeneratePuzzle up to setTimeout *)
HandleGeneratePuzzle ==
    /\ pc = "idle"
    /\ GenerateEnabled
    /\ runs < MaxRuns
    /\ runs' = runs + 1
    /\ isLoading' = TRUE
    /\ generationError' = NoError
    /\ generatedPuzzle' = NULL
    /\ pc' = "timer"
    /\ UNCHANGED <<wordEntries, savedCrosswords, activeCrosswordId, mobileView,
                   isEditingCrossword, editedClues, now>>
    /\ Blur
    /\ UNCHANGED <<runVars, interactionVars, built>>

(* selectCrossword(id), a click in the history list *)
SelectCrossword ==
    /\ pc \in {"idle", "timer"}
    /\ \E n \in 1..Len(savedCrosswords) :
          activeCrosswordId' = savedCrosswords[n].id
    /\ generatedPuzzle' = NULL
    /\ isEditingCrossword' = FALSE
    /\ editedClues' = NullObject
    /\ mobileView' = "viewer"
    /\ UNCHANGED <<wordEntries, savedCrosswords, generationError, isLoading,
                   now, runs, pc>>
    /\ Render(puzzleData' # puzzleData)
    /\ Blur
    /\ UNCHANGED <<runVars, built>>

(* the timer callback when words.length < 2: throw, catch, finally *)
TimeoutValidationError ==
    /\ pc = "timer"
    /\ TooFewWords(NormalizedWords(wordEntries))
    /\ generationError' = ValidationError
    /\ isLoading' = FALSE
    /\ pc' = "idle"
    /\ UNCHANGED <<wordEntries, savedCrosswords, activeCrosswordId,
                   generatedPuzzle, mobileView, isEditingCrossword,
                   editedClues, now, runs>>
    /\ UNCHANGED <<runVars, viewerVars, built>>

(* the timer callback from the normalization to the first placed word
   (lines 997-1069) *)
TimeoutStart ==
    /\ pc = "timer"
    /\ LET sorted    == NormalizedWords(wordEntries)
           firstWord == Head(sorted)
           startRow  == StartRow
           startCol  == StartCol(Len(firstWord.word))
           st0       == [grid |-> EmptyGrid,
                         clues |-> [across |-> <<>>, down |-> <<>>],
                         clueCounter |-> 1,
                         numberLocations |-> EmptyGrid]
           st        == placeWordOnGrid(st0, firstWord, startRow, startCol, "across")
       IN  /\ ~TooFewWords(sorted)
           /\ words' = Tail(sorted)
           /\ newGrid' = st.grid
           /\ newClues' = st.clues
           /\ clueCounter' = st.clueCounter
           /\ numberLocations' = st.numberLocations
           /\ placedWords' = <<[word |-> firstWord.word, clue |-> firstWord.clue,
                                row |-> startRow, col |-> startCol,
                                direction |-> "across"]>>
           /\ pending0' = Len(sorted) - 1
    /\ attempts' = 0
    /\ passes' = 0
    /\ pc' = "while"
    /\ UNCHANGED <<i, placedInPass>>
    /\ UNCHANGED <<appVars, viewerVars, built>>

(* the while condition holds: a pass of the outer loop begins *)
WhileEnter ==
    /\ pc = "while"
    /\ WhileCond(words, attempts)
    /\ placedInPass' = FALSE
    /\ i' = ScanStart(words)
    /\ passes' = passes + 1
    /\ pc' = "for"
    /\ UNCHANGED <<words, newGrid, newClues, clueCounter, placedWords,
                   numberLocations, attempts, pending0>>
    /\ UNCHANGED <<appVars, viewerVars, built>>

(* one iteration of the for loop that commits words[i] and breaks *)
ForCommit ==
    /\ pc = "for"
    /\ i >= 0
    /\ LET wordObj == words[i + 1]
           best    == BestFit(newGrid, wordObj.word, placedWords)
           st      == placeWordOnGrid(
                          [grid |-> newGrid, clues |-> newClues,
                           clueCounter |-> clueCounter,
                           numberLocations |-> numberLocations],
                          wordObj, best.row, best.col, best.direction)
       IN  /\ Commits(best)
           /\ newGrid' = st.grid
           /\ newClues' = st.clues
           /\ clueCounter' = st.clueCounter
           /\ numberLocations' = st.numberLocations
           /\ placedWords' = Append(placedWords,
                                [word |-> wordObj.word, clue |-> wordObj.clue,
                                 row |-> best.row, col |-> best.col,
                                 direction |-> best.direction])
           /\ words' = Splice(words, i)
    /\ placedInPass' = TRUE
    /\ attempts' = AttemptsAfterPass(TRUE, 0)
    /\ pc' = "while"
    /\ UNCHANGED <<i, passes, pending0>>
    /\ UNCHANGED <<appVars, viewerVars, built>>

(* one iteration of the for loop that finds no fit for words[i] *)
ForSkip ==
    /\ pc = "for"
    /\ i >= 0
    /\ ~Commits(BestFit(newGrid, words[i + 1].word, placedWords))
    /\ i' = i - 1
    /\ UNCHANGED <<words, newGrid, newClues, clueCounter, placedWords,
                   numberLocations, attempts, placedInPass, passes, pending0>>
    /\ UNCHANGED <<appVars, pc, viewerVars, built>>

(* the for loop ends without a commit *)
ForExit ==
    /\ pc = "for"
    /\ i < 0
    /\ attempts' = AttemptsAfterPass(placedInPass, attempts)
    /\ pc' = "while"
    /\ UNCHANGED <<words, newGrid, newClues, clueCounter, placedWords,
                   numberLocations, i, placedInPass, passes, pending0>>
    /\ UNCHANGED <<appVars, viewerVars, built>>

(* the while condition fails: lines 1111-1137 *)
Finish ==
    /\ pc = "while"
    /\ ~WhileCond(words, attempts)
    /\ generationError' = IF Len(words) > 0 THEN UnplacedWarning(words)
                          ELSE generationError
    /\ newClues' = [across |-> SortByNumber(newClues.across),
                    down   |-> SortByNumber(newClues.down)]
    /\ savedCrosswords' =
          <<[id |-> now,
             wordEntries |-> FinalWordEntries(placedWords),
             grid |-> newGrid,
             clues |-> newClues']>> \o savedCrosswords
    /\ activeCrosswordId' = now
    /\ generatedPuzzle' = NULL
    /\ mobileView' = "viewer"
    /\ isLoading' = FALSE
    /\ now' = now + 1
    /\ pc' = "idle"
    /\ built' = (now :> savedCrosswords'[1]) @@ built
    /\ Render(puzzleData' # puzzleData)
    /\ focus' = FocusAfterRender(puzzleData', focus)
    /\ UNCHANGED <<wordEntries, isEditingCrossword, editedClues, runs>>
    /\ UNCHANGED <<words, newGrid, clueCounter, placedWords, numberLocations,
                   attempts, i, placedInPass, passes, pending0>>

Next ==
    \/ HandleGeneratePuzzle
    \/ SelectCrossword
    \/ TimeoutValidationError
    \/ TimeoutStart
    \/ WhileEnter
    \/ ForCommit
    \/ ForSkip
    \/ ForExit
    \/ Finish

Spec == Init /\ [][Next]_vars

(* handleDeleteCrossword(id), the bin button of an entry of the history list *)
HandleDeleteCrossword ==
    /\ pc \in {"idle", "timer"}
    /\ \E n \in 1..Len(savedCrosswords) :
          LET id == savedCrosswords[n].id
          IN  /\ savedCrosswords' = WithoutCrossword(savedCrosswords, id)
              /\ IF activeCrosswordId = id
                 THEN activeCrosswordId' = NULL /\ generatedPuzzle' = NULL
                 ELSE UNCHANGED <<activeCrosswordId, generatedPuzzle>>
    /\ Render(puzzleData' # puzzleData)
    /\ Blur
    /\ UNCHANGED <<wordEntries, generationError, isLoading, mobileView,
                   isEditingCrossword, editedClues, now, runs>>
    /\ UNCHANGED <<runVars, pc, built>>

(* the viewer is on the screen and no timer callback is running *)
ViewerReady == pc \in {"idle", "timer"} /\ puzzleData # NullObject

(* handleStartEditCrossword, the button "Editar Dicas" shown when not editing *)
HandleStartEditCrossword ==
    /\ ViewerReady
    /\ ~isEditingCrossword
    /\ editedClues' = puzzleData.clues
    /\ isEditingCrossword' = TRUE
    /\ UNCHANGED <<wordEntries, savedCrosswords, activeCrosswordId,
                   generatedPuzzle, generationError, isLoading, mobileView,
                   now, runs>>
    /\ Blur
    /\ UNCHANGED <<runVars, pc, interactionVars, built>>

(* handleCancelEditCrossword, the button "Cancelar" shown when editing *)
HandleCancelEditCrossword ==
    /\ ViewerReady
    /\ isEditingCrossword
    /\ isEditingCrossword' = FALSE
    /\ editedClues' = NullObject
    /\ UNCHANGED <<wordEntries, savedCrosswords, activeCrosswordId,
                   generatedPuzzle, generationError, isLoading, mobileView,
                   now, runs>>
    /\ Blur
    /\ UNCHANGED <<runVars, pc, interactionVars, built>>

(* handleSaveCrosswordEdit, the button "Salvar" shown when editing; the
   crossword with the active id becomes a new object *)
HandleSaveCrosswordEdit ==
    /\ ViewerReady
    /\ isEditingCrossword
    /\ IF activeCrosswordId = NULL \/ editedClues = NullObject
       THEN /\ UNCHANGED <<savedCrosswords, isEditingCrossword, editedClues>>
            /\ Render(FALSE)
       ELSE /\ savedCrosswords' =
                  SaveClues(savedCrosswords, activeCrosswordId, editedClues)
            /\ isEditingCrossword' = FALSE
            /\ editedClues' = NullObject
            /\ Render(TRUE)
    /\ UNCHANGED <<wordEntries, activeCrosswordId, generatedPuzzle,
                   generationError, isLoading, mobileView, now, runs>>
    /\ Blur
    /\ UNCHANGED <<runVars, pc, built>>

(* handleClueChange(direction, number, text), typing into the textarea of an
   entry of cluesToDisplay *)
HandleClueChange ==
    /\ ViewerReady
    /\ isEditingCrossword
    /\ editedClues # NullObject
    /\ \E direction \in {"across", "down"} : \E newClueText \in ClueTexts :
          \E n \in 1..Len(editedClues[direction]) :
             editedClues' = ClueChange(editedClues, direction,
                                       editedClues[direction][n].number, newClueText)
    /\ UNCHANGED <<wordEntries, savedCrosswords, activeCrosswordId,
                   generatedPuzzle, generationError, isLoading, mobileView,
                   isEditingCrossword, now, runs>>
    /\ Blur
    /\ UNCHANGED <<runVars, pc, interactionVars, built>>

(* handleInputChange(e, row, col), typing into the input of a cell; the
   change event comes from the input that has the focus *)
HandleInputChange ==
    /\ ViewerReady
    /\ ~InputDisabled(isChecking)
    /\ typed < MaxTyped
    /\ focus # NullObject
    /\ \E typedValue \in TypedValues :
          /\ SetInteraction(InputChange(Interaction, focus.row, focus.col, typedValue))
          /\ focus' = FocusAfterInput(puzzleData.grid, Interaction, focus.row,
                                      focus.col, typedValue, focus)
    /\ typed' = typed + 1
    /\ UNCHANGED <<appVars, runVars, pc, discarded, built>>

(* handleCellClick(row, col). The rendered grid binds it to the inputs of
   the cells only; the position of no cell stands for a call with a
   position the grid does not hold *)
CellClicked(pos) ==
    /\ ViewerReady
    /\ pos \in DOMAIN puzzleData.grid => ~InputDisabled(isChecking)
    /\ SetInteraction(CellClick(puzzleData.grid, Interaction, pos[1], pos[2]))
    /\ focus' = FocusAfterClick(puzzleData.grid, pos[1], pos[2], focus)
    /\ UNCHANGED <<appVars, runVars, pc, typed, discarded, built>>

HandleCellClick ==
    /\ ViewerReady
    /\ \E pos \in DOMAIN puzzleData.grid \cup {EmptyCellSample} : CellClicked(pos)

(* the buttons "Verificar", "Revelar" and "Limpar" are disabled while the
   clues are edited *)
ButtonsEnabled == ViewerReady /\ ~isEditingCrossword

(* handleCheck *)
HandleCheck ==
    /\ ButtonsEnabled
    /\ SetInteraction(Check(Interaction))
    /\ Blur
    /\ UNCHANGED <<appVars, runVars, pc, typed, discarded, built>>

(* handleReveal *)
HandleReveal ==
    /\ ButtonsEnabled
    /\ SetInteraction(Reveal(puzzleData.grid, Interaction))
    /\ Blur
    /\ UNCHANGED <<appVars, runVars, pc, typed, discarded, built>>

(* handleReset *)
HandleReset ==
    /\ ButtonsEnabled
    /\ SetInteraction(Reset(Interaction))
    /\ Blur
    /\ UNCHANGED <<appVars, runVars, pc, typed, discarded, built>>

(* the session of a teacher who edits clues *)
EditNext ==
    \/ Next
    \/ HandleDeleteCrossword
    \/ HandleStartEditCrossword
    \/ HandleCancelEditCrossword
    \/ HandleSaveCrosswordEdit
    \/ HandleClueChange

EditSpec == SessionInit /\ [][EditNext]_vars

(* the session of a teacher who solves puzzles *)
ViewerNext ==
    \/ Next
    \/ HandleDeleteCrossword
    \/ HandleInputChange
    \/ HandleCellClick
    \/ HandleCheck
    \/ HandleReveal
    \/ HandleReset

ViewerSpec == SessionInit /\ [][ViewerNext]_vars

(***************************************************************************)
(* Properties                                                              *)
(***************************************************************************)

(* the last run of the timer callback ended with a saved puzzle, which is
   savedCrosswords[1] *)
Produced == pc = "idle" /\ placedWords # <<>>

FinalPuzzle == savedCrosswords[1]

(* the cell of the n-th letter (from 1) of the placed word w *)
CellOf(w, n) ==
    IF w.direction = "across" THEN <<w.row, w.col + n - 1>>
    ELSE <<w.row + n - 1, w.col>>

PlacedCells(w) == {CellOf(w, n) : n \in 1..Len(w.word)}

(* the letter of the placed word w at its cell pos *)
LetterOfAt(w, pos) ==
    w.word[IF w.direction = "across" THEN pos[2] - w.col + 1
                                     ELSE pos[1] - w.row + 1]

PlacedIdx == 1..Len(placedWords)

InputWords == [n \in 1..Len(wordEntries) |-> wordEntries[n].word]

(* a measure of the work the placement loop has left: the passes still
   allowed by the bound, then the words still to examine in this pass *)
LoopMeasure ==
    LET left == (pending0 * pending0 - passes) * (pending0 + 2)
    IN  CASE pc = "for"   -> left + i + 2
          [] pc = "while" -> left
          [] OTHER        -> -1

C1_StepLowersMeasure ==
    pc \in {"while", "for"} => (LoopMeasure' < LoopMeasure)

(* C1: for every input with at least 2 surviving entries the placement loop
   ends: every step of the loop lowers a measure that is never negative
   inside the loop; and the passes of the outer while loop never number more
   than the square of the size pending has when the loop is entered. *)
C1_LoopTerminatesWithinBound ==
    /\ [](passes <= pending0 * pending0)
    /\ [](pc \in {"while", "for"} => LoopMeasure >= 0)
    /\ [][C1_StepLowersMeasure]_vars

(* a run of two passes over two pending words: one commit, then a stalled
   pass, and the loop has ended *)
C1_Witness ==
    /\ pc = "idle" /\ pending0 = 2 /\ passes = 2 /\ Len(words) = 1
    /\ attempts = 1

(* C2: after every commit, two placed words that cover a common cell have the
   same letter there and the cell stores that letter; a commit never changes
   the letter of a cell that was already occupied. *)
C2_LettersAgree ==
    \A a \in PlacedIdx : \A pos \in PlacedCells(placedWords[a]) :
        /\ pos \in DOMAIN newGrid
        /\ newGrid[pos].letter = LetterOfAt(placedWords[a], pos)
        /\ \A b \in PlacedIdx :
              pos \in PlacedCells(placedWords[b]) =>
                 LetterOfAt(placedWords[b], pos) = LetterOfAt(placedWords[a], pos)

C2_CommitKeepsLetters ==
    (pc = "for" /\ Len(placedWords') = Len(placedWords) + 1) =>
        \A pos \in DOMAIN newGrid :
            pos \in DOMAIN newGrid' /\ newGrid'[pos].letter = newGrid[pos].letter

C2_NoContradictoryOverlap ==
    [](C2_LettersAgree) /\ [][C2_CommitKeepsLetters]_vars

(* a word has been committed over two cells that were already occupied *)
C2_Witness ==
    /\ pc = "while" /\ Len(placedWords) = 3
    /\ Cardinality(PlacedCells(placedWords[3]) \cap PlacedCells(placedWords[2])) = 2

(* C3: in the final grid, reading the letters from the (row, col) of a placed
   word along its direction for its length gives its normalized word. *)
ReadWord(grid, w) ==
    [n \in 1..Len(w.word) |->
        LET pos == CellOf(w, n)
        IN  IF pos \in DOMAIN grid THEN grid[pos].letter ELSE "-"]

C3_RoundTrip ==
    Produced =>
        \A a \in PlacedIdx :
            /\ ReadWord(FinalPuzzle.grid, placedWords[a]) = placedWords[a].word
            /\ \E n \in 1..Len(wordEntries) :
                  normalizeString(wordEntries[n].word) = placedWords[a].word

(* the accented lower-case entry was placed and reads GATO in the saved grid *)
C3_Witness ==
    /\ Produced
    /\ InputWords = << <<"g", "U+00E1", "t", "o">>, <<"S", "O", "L">> >>
    /\ Len(placedWords) = 2
    /\ ReadWord(FinalPuzzle.grid, placedWords[1]) = <<"G", "A", "T", "O">>

(* two cells with a common edge *)
EdgeAdjacent(p, q) ==
    \/ (p[1] = q[1] /\ (p[2] = q[2] + 1 \/ q[2] = p[2] + 1))
    \/ (p[2] = q[2] /\ (p[1] = q[1] + 1 \/ q[1] = p[1] + 1))

CoveredBy(a, p) == p \in PlacedCells(placedWords[a])

AdjacentCellsShareAWord ==
    \A p \in DOMAIN newGrid : \A q \in DOMAIN newGrid :
        EdgeAdjacent(p, q) => \E a \in PlacedIdx : CoveredBy(a, p) /\ CoveredBy(a, q)

(* placed words a and b have no common cell *)
Disjoint(a, b) ==
    PlacedCells(placedWords[a]) \cap PlacedCells(placedWords[b]) = {}

(* C4, as amended: after every commit any two orthogonally adjacent non-empty
   cells are both covered by one and the same placed word; and a cell of a
   word is edge-adjacent to a cell of another word that it does not
   intersect only where a third placed word covers both cells. *)
C4_Isolation ==
    /\ AdjacentCellsShareAWord
    /\ \A a \in PlacedIdx : \A b \in PlacedIdx :
          (a # b /\ Disjoint(a, b)) =>
             \A p \in PlacedCells(placedWords[a]) :
                \A q \in PlacedCells(placedWords[b]) :
                   EdgeAdjacent(p, q) =>
                      \E c \in PlacedIdx \ {a, b} : CoveredBy(c, p) /\ CoveredBy(c, q)

(* C4 as stated: cells of different words that do not intersect are never
   edge-adjacent. *)
C4_Original ==
    /\ AdjacentCellsShareAWord
    /\ \A a \in PlacedIdx : \A b \in PlacedIdx :
          (a # b /\ Disjoint(a, b)) =>
             \A p \in PlacedCells(placedWords[a]) :
                \A q \in PlacedCells(placedWords[b]) : ~EdgeAdjacent(p, q)

(* ABC across, AD down from its A, ED across ending on the D: the A of ABC
   lies right above the D of ED, and the two across words share no cell *)
C4_Witness ==
    /\ pc = "while" /\ Len(placedWords) = 3
    /\ placedWords[1].direction = "across"
    /\ placedWords[3].direction = "across"
    /\ Disjoint(1, 3)
    /\ \E p \in PlacedCells(placedWords[1]) : \E q \in PlacedCells(placedWords[3]) :
          EdgeAdjacent(p, q) /\ CoveredBy(2, p) /\ CoveredBy(2, q)

Numbers(list) == {list[n].number : n \in 1..Len(list)}

StartOf(a) == <<placedWords[a].row, placedWords[a].col>>

(* the number of the clue entry pushed for the a-th placed word *)
WordNumber(a) == numberLocations[StartOf(a)]

CellsNumbered(grid, n) == {pos \in DOMAIN grid : grid[pos].clueNumber = n}

(* C5: in the final puzzle every clue number of clues.across or clues.down is
   the clueNumber of exactly one grid cell, that cell is the start cell of
   every word that carries the number, and no cell has a clueNumber that is
   in neither list. *)
C5_NumbersMarkStartCells ==
    Produced =>
        LET g   == FinalPuzzle.grid
            cl  == FinalPuzzle.clues
            all == Numbers(cl.across) \cup Numbers(cl.down)
        IN  /\ \A n \in all : Cardinality(CellsNumbered(g, n)) = 1
            /\ \A n \in all : \E a \in PlacedIdx : WordNumber(a) = n
            /\ \A a \in PlacedIdx :
                  /\ WordNumber(a) \in Numbers(cl[placedWords[a].direction])
                  /\ CellsNumbered(g, WordNumber(a)) = {StartOf(a)}
            /\ \A pos \in DOMAIN g :
                  g[pos].clueNumber # NULL => g[pos].clueNumber \in all

(* an across word and a down word start at one cell and share number 2,
   a third word has number 1 *)
C5_Witness ==
    /\ Produced /\ Len(placedWords) = 3
    /\ StartOf(2) = StartOf(3)
    /\ WordNumber(2) = 2 /\ WordNumber(3) = 2
    /\ FinalPuzzle.grid[StartOf(2)].clueNumber = 2
    /\ Numbers(FinalPuzzle.clues.across) = {1, 2}

NoRepeat(list) ==
    \A x \in 1..Len(list) : \A y \in 1..Len(list) :
        x # y => list[x].number # list[y].number

(* C6: whenever a clue number is reused for a second word, the two words are
   one across word and one down word with the same start cell; so no number
   occurs twice in clues.across or twice in clues.down, and at most two
   words have the same number. *)
C6_ReuseIsAcrossAndDown ==
    Produced =>
        /\ \A a \in PlacedIdx : \A b \in PlacedIdx :
              (a # b /\ WordNumber(a) = WordNumber(b)) =>
                 /\ placedWords[a].direction # placedWords[b].direction
                 /\ StartOf(a) = StartOf(b)
        /\ NoRepeat(FinalPuzzle.clues.across)
        /\ NoRepeat(FinalPuzzle.clues.down)
        /\ \A a \in PlacedIdx :
              Cardinality({b \in PlacedIdx : WordNumber(b) = WordNumber(a)}) <= 2

(* a word of the data model: length 2..15, no space, no hyphen *)
ValidWord(w) ==
    /\ Len(w) >= 2 /\ Len(w) <= 15
    /\ \A n \in 1..Len(w) : w[n] \notin {" ", "-"}

SharesLetter(v, w) == \E j \in 1..Len(v) : \E k \in 1..Len(w) : v[j] = w[k]

(* the form holds exactly two valid entries with distinct words that share a
   letter *)
TwoCrossingWords ==
    /\ Len(wordEntries) = 2
    /\ LET v == normalizeString(wordEntries[1].word)
           w == normalizeString(wordEntries[2].word)
       IN  /\ ValidWord(v) /\ ValidWord(w) /\ v # w /\ SharesLetter(v, w)
           /\ Trim(wordEntries[1].clue) # <<>>
           /\ Trim(wordEntries[2].clue) # <<>>

(* C7: an input of exactly two distinct valid words that share a letter has
   both words placed: the longest (the first in input order when equal) across
   at row floor(N/2), col floor((N - len)/2), the other one down through a
   shared letter; no word is reported unplaced and clues.across and
   clues.down have one entry each. *)
C7_TwoWordsBothPlaced ==
    (pc = "idle" /\ runs >= 1 /\ TwoCrossingWords) =>
        LET v  == normalizeString(wordEntries[1].word)
            w  == normalizeString(wordEntries[2].word)
            f  == IF Len(w) > Len(v) THEN w ELSE v
            s  == IF Len(w) > Len(v) THEN v ELSE w
            r0 == GRID_SIZE \div 2
            c0 == (GRID_SIZE - Len(f)) \div 2
        IN  /\ Produced
            /\ Len(placedWords) = 2
            /\ placedWords[1].word = f /\ placedWords[1].direction = "across"
            /\ placedWords[1].row = r0 /\ placedWords[1].col = c0
            /\ placedWords[2].word = s /\ placedWords[2].direction = "down"
            /\ \E j \in 1..Len(s) : \E k \in 1..Len(f) :
                  /\ s[j] = f[k]
                  /\ placedWords[2].row = r0 - (j - 1)
                  /\ placedWords[2].col = c0 + (k - 1)
            /\ words = <<>>
            /\ generationError = NoError
            /\ Len(FinalPuzzle.clues.across) = 1
            /\ Len(FinalPuzzle.clues.down) = 1
            /\ FinalPuzzle.wordEntries = <<[word |-> f, clue |-> placedWords[1].clue],
                                           [word |-> s, clue |-> placedWords[2].clue]>>

(* GATO, CASA: GATO across at (15, 13), CASA down through the first A *)
C7_Witness ==
    /\ pc = "idle" /\ runs = 1
    /\ InputWords = << <<"G", "A", "T", "O">>, <<"C", "A", "S", "A">> >>
    /\ Len(placedWords) = 2
    /\ placedWords[1].word = <<"G", "A", "T", "O">>
    /\ placedWords[1].row = 15 /\ placedWords[1].col = 13
    /\ placedWords[2].word = <<"C", "A", "S", "A">>
    /\ placedWords[2].direction = "down"
    /\ placedWords[2].row = 14 /\ placedWords[2].col = 14

(* fewer than 2 entries survive the normalization of the form *)
FewerThanTwoSurvive == Len(NormalizedWords(wordEntries)) < 2

C8_CallKeepsPuzzles ==
    /\ ((pc = "idle" /\ pc' = "timer") =>
            UNCHANGED <<savedCrosswords, activeCrosswordId>>)
    /\ ((pc = "timer" /\ pc' # "timer" /\ FewerThanTwoSurvive) =>
            /\ pc' = "idle"
            /\ generationError' = ValidationError
            /\ isLoading /\ ~isLoading'
            /\ UNCHANGED <<savedCrosswords, activeCrosswordId>>
            /\ UNCHANGED <<wordEntries, generatedPuzzle, mobileView,
                           isEditingCrossword, editedClues>>)

(* C8: when fewer than 2 entries survive normalization the construction fails
   with the validation error and produces no puzzle: the saved crosswords and
   the active crossword id are as before the call, only the error message
   and the loading flag change. *)
C8_ValidationErrorNoPuzzle == [][C8_CallKeepsPuzzles]_vars

(* the entries "" and SOL were rejected while an earlier crossword is saved
   and selected *)
C8_Witness ==
    /\ pc = "idle" /\ runs = 1
    /\ InputWords = << <<>>, <<"S", "O", "L">> >>
    /\ generationError = ValidationError
    /\ ~isLoading
    /\ savedCrosswords = <<PriorCrossword>>
    /\ activeCrosswordId = 1

AzulVerdeRoxo ==
    /\ pc = "idle" /\ runs >= 1
    /\ InputWords = << <<"A", "Z", "U", "L">>, <<"V", "E", "R", "D", "E">>,
                       <<"R", "O", "X", "O">> >>
    /\ \A n \in 1..3 : wordEntries[n].clue # <<>>

PlacedWordList == [n \in 1..Len(placedWords) |-> placedWords[n].word]

(* C9, as amended: for the entries AZUL, VERDE, ROXO the longest word VERDE
   is placed across, ROXO is placed down through the R it shares with VERDE,
   and only AZUL is reported as unplaced, by its literal word. *)
C9_AzulVerdeRoxo ==
    AzulVerdeRoxo =>
        /\ Produced
        /\ PlacedWordList = << <<"V", "E", "R", "D", "E">>, <<"R", "O", "X", "O">> >>
        /\ placedWords[1].direction = "across"
        /\ placedWords[1].row = 15 /\ placedWords[1].col = 12
        /\ placedWords[2].direction = "down"
        /\ placedWords[2].row = 15 /\ placedWords[2].col = 14
        /\ generationError = [kind |-> "unplaced", words |-> << <<"A", "Z", "U", "L">> >>]

(* C9 as stated: only the first (longest) word is placed and the other two
   are reported as unplaced. *)
C9_Original ==
    AzulVerdeRoxo =>
        /\ Produced
        /\ PlacedWordList = << <<"V", "E", "R", "D", "E">> >>
        /\ generationError.kind = "unplaced"
        /\ {generationError.words[n] : n \in 1..Len(generationError.words)}
              = { <<"A", "Z", "U", "L">>, <<"R", "O", "X", "O">> }

C9_Witness ==
    /\ AzulVerdeRoxo
    /\ Len(placedWords) = 2
    /\ placedWords[2].word = <<"R", "O", "X", "O">>
    /\ Len(words) = 1

SeqRange(sq) == {sq[n] : n \in 1..Len(sq)}

PlacedEntries == {[word |-> placedWords[n].word, clue |-> placedWords[n].clue] : n \in PlacedIdx}

C10_Saved ==
    (Produced /\ Len(words) > 0) =>
        /\ Len(savedCrosswords) >= 1
        /\ FinalPuzzle.id = now - 1
        /\ FinalPuzzle.grid = newGrid
        /\ FinalPuzzle.wordEntries =
              [n \in PlacedIdx |-> [word |-> placedWords[n].word,
                                    clue |-> placedWords[n].clue]]
        /\ generationError.kind = "unplaced"
        /\ generationError.words = [n \in 1..Len(words) |-> words[n].word]
        /\ SeqRange(generationError.words) \cap SeqRange(PlacedWordList) = {}
        /\ PlacedEntries \cup SeqRange(words) = SeqRange(NormalizedWords(wordEntries))
        /\ Len(placedWords) + Len(words) = Len(NormalizedWords(wordEntries))

C10_FinishSaves ==
    (pc = "while" /\ pc' = "idle" /\ Len(words) > 0) =>
        /\ Len(savedCrosswords') = Len(savedCrosswords) + 1
        /\ Tail(savedCrosswords') = savedCrosswords

(* C10: when the greedy search ends with words left in pending a puzzle is
   still produced and saved; the placed words and the reported unplaced
   words are disjoint and together are exactly the normalized input list,
   the saved wordEntries are exactly the placed words and the warning names
   exactly the unplaced words. *)
C10_UnplacedReportedPuzzleSaved == [](C10_Saved) /\ [][C10_FinishSaves]_vars

(* a puzzle of two words was saved on top of an earlier one while a third
   word is reported *)
C10_Witness ==
    /\ Produced /\ Len(words) = 1 /\ Len(placedWords) = 2
    /\ Len(savedCrosswords) = 2
    /\ generationError.kind = "unplaced"
    /\ Len(generationError.words) = 1

(***************************************************************************)
(* The viewer                                                              *)
(***************************************************************************)

ShownCells == DOMAIN puzzleData.grid

(* C11: while checking is true every cell of the shown grid is in exactly
   one of three classes: correct iff its stored input equals the cell's
   letter, incorrect iff its input is not empty and differs, neutral iff its
   input is empty; while checking is false no cell is marked. *)
C11_Classes ==
    puzzleData # NullObject =>
        \A pos \in ShownCells :
            LET input   == InputAt(Interaction, pos)
                letter  == <<puzzleData.grid[pos].letter>>
                correct == isCorrect(puzzleData.grid, Interaction, pos)
                wrong   == isIncorrect(puzzleData.grid, Interaction, pos)
            IN  IF isChecking
                THEN /\ correct <=> input = letter
                     /\ wrong <=> (input # <<>> /\ input # letter)
                     /\ (~correct /\ ~wrong) <=> input = <<>>
                     /\ ~(correct /\ wrong)
                ELSE ~correct /\ ~wrong

(* the class of a cell changes in no step that leaves the cell's own input,
   the check and the puzzle as they are *)
C11_OwnInputOnly ==
    (puzzleData # NullObject /\ puzzleData' = puzzleData /\ isChecking' = isChecking) =>
        \A pos \in ShownCells :
            InputAt(Interaction', pos) = InputAt(Interaction, pos) =>
                /\ isCorrect(puzzleData.grid, Interaction', pos)
                      = isCorrect(puzzleData.grid, Interaction, pos)
                /\ isIncorrect(puzzleData.grid, Interaction', pos)
                      = isIncorrect(puzzleData.grid, Interaction, pos)

C11_CellClassesByOwnInput == [](C11_Classes) /\ [][C11_OwnInputOnly]_vars

(* a check that shows a correct, an incorrect and a neutral cell *)
C11_Witness ==
    /\ puzzleData # NullObject
    /\ isChecking
    /\ \E p \in ShownCells : \E q \in ShownCells : \E r \in ShownCells :
          /\ isCorrect(puzzleData.grid, Interaction, p)
          /\ isIncorrect(puzzleData.grid, Interaction, q)
          /\ ~isCorrect(puzzleData.grid, Interaction, r)
          /\ ~isIncorrect(puzzleData.grid, Interaction, r)

(* Reveal followed by Reset, applied to the state the viewer is in *)
C12_RevealThenReset ==
    puzzleData # NullObject =>
        Reset(Reveal(puzzleData.grid, Interaction)) = InitialInteraction

C12_ResetStep == HandleReset => Interaction' = InitialInteraction

(* C12: from any reachable state of the viewer Reveal followed by Reset
   gives the initial state: userInput empty, no selected cell, checking
   false. *)
C12_RevealResetGivesInitial == [](C12_RevealThenReset) /\ [][C12_ResetStep]_vars

(* the state between the two: the solution is revealed, nothing was typed,
   and a cell is selected *)
C12_Witness ==
    /\ puzzleData # NullObject
    /\ userInput = Solution(puzzleData.grid)
    /\ selectedCell # NullObject
    /\ typed = 0

C13_Locked ==
    isChecking => /\ typed' = typed
                  /\ isChecking' => userInput' = userInput

(* C13: while checking is true no input is accepted: no call of
   handleInputChange takes place and userInput is the same, for every cell,
   after every step that leaves checking true. *)
C13_InputLockedWhileChecking == [][C13_Locked]_vars

(* a check of a grid that holds input, in a session that could type more *)
C13_Witness ==
    /\ puzzleData # NullObject
    /\ isChecking
    /\ userInput # NoInput
    /\ typed < MaxTyped

C14_NoOp == CellClicked(EmptyCellSample) => UNCHANGED <<userInput, selectedCell, isChecking>>

(* C14 as stated: a call of handleCellClick for a position that holds no
   cell changes nothing: userInput, the selection and checking are as
   before. *)
C14_SelectEmptyCellIsNoOp == [][C14_NoOp]_vars

C14_Clears ==
    CellClicked(EmptyCellSample) => /\ selectedCell' = NullObject
                                    /\ UNCHANGED <<userInput, isChecking>>

(* C14: a call of handleCellClick for a position that holds no cell clears
   the selection and changes nothing else: userInput and checking are as
   before (and no error is raised: the handler returns). *)
C14_SelectEmptyCellClearsSelection == [][C14_Clears]_vars

(* no puzzle was constructed or replaced in this session, a cell input has
   the focus from a click, which selected it, and the selection is gone
   while the input typed so far is kept *)
C14_Witness ==
    /\ puzzleData = SolvedCrossword
    /\ runs = 0
    /\ focus # NullObject
    /\ selectedCell = NullObject
    /\ userInput # NoInput

C17_ReplacedMeansInitial ==
    puzzleData' # puzzleData => Interaction' = InitialInteraction

(* no input is held for a cell the shown puzzle does not have, and none
   when no puzzle is shown *)
C17_InputOfShownPuzzle ==
    IF puzzleData = NullObject THEN Interaction = InitialInteraction
    ELSE DOMAIN userInput \subseteq ShownCells

(* C17: whenever the puzzle given to the viewer is replaced the viewer's
   state is the initial one (userInput empty, no selection, checking false)
   in the next state already; no input of the puzzle before is kept. *)
C17_SwitchDiscardsInteraction ==
    [](C17_InputOfShownPuzzle) /\ [][C17_ReplacedMeansInitial]_vars

(* a puzzle that held input was replaced by the one now shown, which is
   untouched *)
C17_Witness ==
    /\ discarded
    /\ puzzleData # NullObject
    /\ Interaction = InitialInteraction

(***************************************************************************)
(* The clue editor                                                         *)
(***************************************************************************)

NumbersOf(list) == [n \in 1..Len(list) |-> list[n].number]

(* C18: every saved crossword has the grid and, in each clue list, the clue
   numbers in the order and count with which it was constructed. *)
C18_StructureKept ==
    \A n \in 1..Len(savedCrosswords) :
        LET cw   == savedCrosswords[n]
            orig == built[cw.id]
        IN  /\ cw.grid = orig.grid
            /\ NumbersOf(cw.clues.across) = NumbersOf(orig.clues.across)
            /\ NumbersOf(cw.clues.down) = NumbersOf(orig.clues.down)

(***************************************************************************)
(* The word list that reaches the placement engine                         *)
(***************************************************************************)

(* the timer callback has built the word list and placed its first word *)
RunStarted == placedWords # <<>>

(* the word list of line 1001 as the run holds it: the placed words in the
   order of placement, then the pending ones *)
Survivors == FinalWordEntries(placedWords) \o words

(* the data model's conditions for dropping a normalized entry *)
SpecDrops(item) ==
    \/ Len(item.word) = 0
    \/ Len(item.word) = 1
    \/ Len(item.word) > 15
    \/ \E n \in 1..Len(item.word) : item.word[n] \in {" ", "-"}
    \/ Len(item.clue) = 0

(* C15: the normalizer drops an entry exactly when its normalized word is
   empty, has length 1, is longer than 15, holds a space or a hyphen, or its
   clue is empty; every word that reaches the placement engine has a length
   in 2..15 and holds no space and no hyphen. *)
C15_DropsByLengthAndCharacters ==
    RunStarted =>
        /\ \A n \in 1..Len(wordEntries) :
              ~KeepItem(MapEntry(wordEntries[n])) <=> SpecDrops(MapEntry(wordEntries[n]))
        /\ \A n \in 1..Len(Survivors) : ValidWord(Survivors[n].word)

(* the input positions whose normalized word is w *)
Occurrences(w) ==
    {n \in 1..Len(wordEntries) : normalizeString(wordEntries[n].word) = w}

(* those of them whose trimmed clue is not empty *)
KeptOccurrences(w) ==
    {n \in Occurrences(w) : Trim(wordEntries[n].clue) # <<>>}

Last(S) == CHOOSE n \in S : \A m \in S : m <= n

NoTwoSurvivorsShareAWord ==
    \A a \in 1..Len(Survivors) : \A b \in 1..Len(Survivors) :
        a # b => Survivors[a].word # Survivors[b].word

(* C16: after normalization no two surviving entries have the same
   normalized word, and a surviving entry carries the trimmed clue of the
   last input occurrence of its word among the occurrences that pass the
   filter, that is, whose trimmed clue is not empty. *)
C16_DedupeKeepsLastKept ==
    RunStarted =>
        /\ NoTwoSurvivorsShareAWord
        /\ \A n \in 1..Len(Survivors) :
              /\ KeptOccurrences(Survivors[n].word) # {}
              /\ Survivors[n].clue =
                    Trim(wordEntries[Last(KeptOccurrences(Survivors[n].word))].clue)

(* C16 as the claim words it: the surviving entry carries the clue of the
   last occurrence of its word in input order. *)
C16_Original ==
    RunStarted =>
        /\ NoTwoSurvivorsShareAWord
        /\ \A n \in 1..Len(Survivors) :
              Survivors[n].clue =
                 Trim(wordEntries[Last(Occurrences(Survivors[n].word))].clue)

(* a run on a form that names one word twice with different clues, spelled
   differently before normalization *)
C16_Witness ==
    /\ Produced
    /\ \E n \in 1..Len(wordEntries) : \E m \in (n + 1)..Len(wordEntries) :
          /\ wordEntries[n].word # wordEntries[m].word
          /\ normalizeString(wordEntries[n].word) = normalizeString(wordEntries[m].word)
          /\ Trim(wordEntries[m].clue) # <<>>
          /\ Trim(wordEntries[n].clue) # Trim(wordEntries[m].clue)
          /\ \E a \in 1..Len(Survivors) :
                /\ Survivors[a].word = normalizeString(wordEntries[m].word)
                /\ Survivors[a].clue = Trim(wordEntries[m].clue)

(***************************************************************************)
(* The clue lists and the bounds of the grid                               *)
(***************************************************************************)

Ascending(list) ==
    \A a \in 1..Len(list) : \A b \in (a + 1)..Len(list) :
        list[a].number <= list[b].number

(* C19: in every produced puzzle clues.across and clues.down are each sorted
   ascending by clue number. *)
C19_CluesAscending ==
    \A n \in 1..Len(savedCrosswords) :
        /\ Ascending(savedCrosswords[n].clues.across)
        /\ Ascending(savedCrosswords[n].clues.down)

(* a produced puzzle in which a word placed later has the smaller number of
   two words of one direction *)
C19_Witness ==
    /\ Produced
    /\ \E a \in PlacedIdx : \E b \in PlacedIdx :
          /\ a < b
          /\ placedWords[a].direction = placedWords[b].direction
          /\ WordNumber(a) > WordNumber(b)

InsideGrid(pos) ==
    /\ 0 <= pos[1] /\ pos[1] < GRID_SIZE
    /\ 0 <= pos[2] /\ pos[2] < GRID_SIZE

(* C20: every placed word, the first one included, lies entirely inside the
   grid: 0 <= row, 0 <= col, col + len <= N for across and row + len <= N
   for down, and no letter is written outside the grid. *)
C20_WordsInsideGrid ==
    /\ \A a \in PlacedIdx :
          /\ 0 <= placedWords[a].row
          /\ 0 <= placedWords[a].col
          /\ IF placedWords[a].direction = "across"
             THEN placedWords[a].col + Len(placedWords[a].word) <= GRID_SIZE
             ELSE placedWords[a].row + Len(placedWords[a].word) <= GRID_SIZE
    /\ \A pos \in DOMAIN newGrid : InsideGrid(pos)

(* the candidates the three loops hand to canPlaceWord for the pending word
   under examination *)
Examining == pc = "for" /\ i >= 0

CandidatesOf(word, pws) ==
    {CandidateOf(pws, Matches(word, pws, 1)[n]) :
        n \in 1..Len(Matches(word, pws, 1))}

(* a position that is empty or outside the grid *)
Free(grid, pos) == ~InsideGrid(pos) \/ pos \notin DOMAIN grid

(* the condition in the words of the claim: the word fits inside the grid,
   the cells before and after it are free, and each position holds the same
   letter or is empty with both perpendicular neighbours free *)
FitsAsStated(grid, word, row, col, direction) ==
    LET along(n) == IF direction = "across" THEN <<row, col + n>> ELSE <<row + n, col>>
        sideA(n) == IF direction = "across" THEN <<row - 1, col + n>> ELSE <<row + n, col - 1>>
        sideB(n) == IF direction = "across" THEN <<row + 1, col + n>> ELSE <<row + n, col + 1>>
        last     == Len(word) - 1
    IN  /\ \A n \in 0..last : InsideGrid(along(n))
        /\ Free(grid, along(-1))
        /\ Free(grid, along(last + 1))
        /\ \A n \in 0..last :
              \/ along(n) \in DOMAIN grid /\ grid[along(n)].letter = word[n + 1]
              \/ /\ along(n) \notin DOMAIN grid
                 /\ Free(grid, sideA(n))
                 /\ Free(grid, sideB(n))

(* C21: canPlaceWord returns true exactly when the word fits inside the
   grid from its start cell, the cells before its first and after its last
   letter are empty or outside the grid, and each position is occupied by
   the same letter or empty with both perpendicular neighbours empty or
   outside the grid. (The function is an operator of the grid it is given
   and changes nothing.) *)
C21_FeasibleExactlyAsStated ==
    Examining =>
        \A cand \in CandidatesOf(words[i + 1].word, placedWords) :
            canPlaceWord(newGrid, words[i + 1].word, cand.row, cand.col, cand.direction)
                <=> FitsAsStated(newGrid, words[i + 1].word, cand.row, cand.col,
                                 cand.direction)

(* the same for the candidates whose column is a column of the grid *)
C21_FeasibleAsStatedInsideColumns ==
    Examining =>
        \A cand \in CandidatesOf(words[i + 1].word, placedWords) :
            cand.col < GRID_SIZE =>
               (canPlaceWord(newGrid, words[i + 1].word, cand.row, cand.col, cand.direction)
                   <=> FitsAsStated(newGrid, words[i + 1].word, cand.row, cand.col,
                                    cand.direction))

(* the triples (j, P, k), counted from 1, at which the letter j of the word
   equals the letter k of the placed word P *)
Triples(word, pws) ==
    UNION {{t \in (1..Len(word)) \X {p} \X (1..Len(pws[p].word)) :
               word[t[1]] = pws[p].word[t[3]]} : p \in 1..Len(pws)}

(* t comes before u in the scan: j ascending, then the placed words in the
   order of placement, then k ascending *)
ScannedBefore(t, u) ==
    \/ t[1] < u[1]
    \/ t[1] = u[1] /\ t[2] < u[2]
    \/ t[1] = u[1] /\ t[2] = u[2] /\ t[3] < u[3]

(* the placement perpendicular to P that puts the letter j of the word on
   the cell of the letter k of P *)
Crossing(pws, t) ==
    LET P    == pws[t[2]]
        cell == CellOf(P, t[3])
    IN  IF P.direction = "across"
        THEN [row |-> cell[1] - (t[1] - 1), col |-> cell[2], direction |-> "down"]
        ELSE [row |-> cell[1], col |-> cell[2] - (t[1] - 1), direction |-> "across"]

(* the number of cells of the placement that are filled already *)
CrossingCount(grid, word, pl) ==
    Cardinality({n \in 1..Len(word) :
        CellOf([row |-> pl.row, col |-> pl.col, direction |-> pl.direction], n)
            \in DOMAIN grid})

FeasibleTriples(grid, word, pws) ==
    {t \in Triples(word, pws) :
        canPlaceWord(grid, word, Crossing(pws, t).row, Crossing(pws, t).col,
                     Crossing(pws, t).direction)}

(* this step is an iteration of the for loop that commits words[i] *)
CommitStep == pc = "for" /\ pc' = "while" /\ placedInPass'

PlacementOf(w) == [row |-> w.row, col |-> w.col, direction |-> w.direction]

(* t is the triple the scan keeps: no feasible triple has more crossings
   and every feasible triple scanned before it has fewer *)
KeptByScan(grid, word, pws, t) ==
    \A u \in FeasibleTriples(grid, word, pws) :
        /\ CrossingCount(grid, word, Crossing(pws, u))
              <= CrossingCount(grid, word, Crossing(pws, t))
        /\ ScannedBefore(u, t) =>
              CrossingCount(grid, word, Crossing(pws, u))
                 < CrossingCount(grid, word, Crossing(pws, t))

(* C22: the placement committed for a pending word has the highest
   intersection count among its feasible candidates (j, P, k), and among
   candidates with that count it is the first in the scan order j
   ascending, placed words in placement order, k ascending. *)
C22_CommitsFirstBestCandidate ==
    [][CommitStep =>
          \E t \in FeasibleTriples(newGrid, words[i + 1].word, placedWords) :
             /\ Crossing(placedWords, t) = PlacementOf(placedWords'[Len(placedWords')])
             /\ KeptByScan(newGrid, words[i + 1].word, placedWords, t)]_vars

(* the grid before the last commit, read back from the words placed before *)
GridOf(pws) ==
    [pos \in UNION {PlacedCells(pws[a]) : a \in 1..Len(pws)} |->
        [letter |-> LetterOfAt(pws[CHOOSE a \in 1..Len(pws) : pos \in PlacedCells(pws[a])],
                               pos)]]

(* a word was committed for which a second feasible candidate with another
   placement and the same count came later in the scan *)
C22_Witness ==
    /\ pc = "while"
    /\ placedInPass
    /\ Len(placedWords) > 1
    /\ LET pws  == SubSeq(placedWords, 1, Len(placedWords) - 1)
           w    == placedWords[Len(placedWords)]
           grid == GridOf(pws)
       IN  \E t \in FeasibleTriples(grid, w.word, pws) :
           \E u \in FeasibleTriples(grid, w.word, pws) :
              /\ Crossing(pws, t) = PlacementOf(w)
              /\ Crossing(pws, u) # PlacementOf(w)
              /\ ScannedBefore(t, u)
              /\ CrossingCount(grid, w.word, Crossing(pws, u))
                    = CrossingCount(grid, w.word, Crossing(pws, t))

(* the word just committed is words[i] of the list before the splice, and
   placedInPass stays true until the next pass begins *)
JustCommitted == pc = "while" /\ placedInPass

(* C23 as stated: after a commit at index i the scan goes on from the
   current position, the next word examined being the one just before
   position i. *)
C23_Original ==
    [][(JustCommitted /\ pc' = "for") => i' = i - 1]_vars

C23_Steps ==
    /\ CommitStep => /\ attempts' = 0
                     /\ words' = Splice(words, i)
    /\ (pc = "while" /\ pc' = "for") => /\ i' = Len(words) - 1
                                        /\ words' = words
    /\ (pc = "for" /\ pc' = "for") => /\ i' = i - 1
                                      /\ words' = words

(* C23: the pending list is scanned from its last element toward its first;
   a commit at index i sets attempts to 0 and ends the pass, and the next
   pass starts again at the last element of the shortened list, so that the
   words after position i are examined again before the words before it. *)
C23_CommitRestartsFromTheEnd ==
    [](JustCommitted => attempts = 0) /\ [][C23_Steps]_vars

(* a word was committed that was not the last of the pending list: words
   that come after its position are still pending *)
C23_Witness ==
    /\ JustCommitted
    /\ attempts = 0
    /\ i < Len(words)

(* C24: in the final grid every cell along a placed word with number n and
   direction d has its field d equal to n, every non-empty cell has at least
   one of across and down, and the cells whose field d equals n are exactly
   the cells of the d-word numbered n. *)
C24_DirectionFieldsMatchWords ==
    Produced =>
        /\ \A a \in PlacedIdx :
              LET d == placedWords[a].direction
                  n == WordNumber(a)
              IN  /\ \A pos \in PlacedCells(placedWords[a]) :
                        FinalPuzzle.grid[pos][d] = n
                  /\ {pos \in DOMAIN FinalPuzzle.grid : FinalPuzzle.grid[pos][d] = n}
                        = PlacedCells(placedWords[a])
        /\ \A pos \in DOMAIN FinalPuzzle.grid :
              FinalPuzzle.grid[pos].across # NULL \/ FinalPuzzle.grid[pos].down # NULL

(* C27: when the construction ends no unplaced word has a feasible candidate
   against the final grid, and every word placed after the first shares a
   letter with a word placed before it (a word that shares no letter with
   any placed word is never placed). *)
C27_NoFeasibleCandidateLeft ==
    Produced =>
        /\ \A n \in 1..Len(words) :
              FeasibleTriples(FinalPuzzle.grid, words[n].word, placedWords) = {}
        /\ \A a \in PlacedIdx :
              a > 1 => \E b \in 1..(a - 1) :
                          SharesLetter(placedWords[a].word, placedWords[b].word)

(* a puzzle was produced and a word is left over that shares letters with
   placed words and fits at none of the crossings *)
C27_Witness ==
    /\ Produced
    /\ \E n \in 1..Len(words) :
          /\ Triples(words[n].word, placedWords) # {}
          /\ FeasibleTriples(FinalPuzzle.grid, words[n].word, placedWords) = {}
    /\ \A pos \in DOMAIN FinalPuzzle.grid : InsideGrid(pos)

(* all cells of S that a path of edge-adjacent cells of S joins to R *)
RECURSIVE Joined(_, _)
Joined(S, R) ==
    LET more == R \cup {p \in S : \E q \in R : EdgeAdjacent(p, q)}
    IN  IF more = R THEN R ELSE Joined(S, more)

Connected(S) == S = {} \/ Joined(S, {CHOOSE p \in S : TRUE}) = S

C28_FeasibleCandidatesCross ==
    Examining =>
        \A cand \in CandidatesOf(words[i + 1].word, placedWords) :
            canPlaceWord(newGrid, words[i + 1].word, cand.row, cand.col, cand.direction)
               => CrossingCount(newGrid, words[i + 1].word, cand) >= 1

C28_CommitCoversFilledCell ==
    CommitStep =>
        PlacedCells(placedWords'[Len(placedWords')]) \cap DOMAIN newGrid # {}

(* C28: every word committed after the first covers at least one cell that
   was filled already, so every feasible candidate has an intersection
   count of at least 1 (the test maxIntersections > 0 rejects no feasible
   candidate) and after every commit the non-empty cells are connected
   through common edges. *)
C28_CommitsCrossAndGridConnected ==
    /\ [](C28_FeasibleCandidatesCross /\ Connected(DOMAIN newGrid))
    /\ [][C28_CommitCoversFilledCell]_vars

(* two words are placed and a further word has a feasible candidate *)
C28_Witness ==
    /\ Examining
    /\ Len(placedWords) >= 2
    /\ FeasibleTriples(newGrid, words[i + 1].word, placedWords) # {}

(* C29: for every candidate handed to canPlaceWord the check reads no grid
   row and no grid column outside 0..N-1: the row of an across candidate and
   the column of a down candidate are at most N-1. *)
C29_ReadsInsideGrid ==
    Examining =>
        \A cand \in CandidatesOf(words[i + 1].word, placedWords) :
            /\ cand.row >= 0 /\ cand.col >= 0 =>
                  /\ cand.direction = "across" => cand.row <= GRID_SIZE - 1
                  /\ cand.direction = "down" => cand.col <= GRID_SIZE - 1
            /\ \A pos \in CellsRead(newGrid, words[i + 1].word, cand.row, cand.col,
                                    cand.direction) : InsideGrid(pos)

(* the rows that are read are rows of the grid, so no read fails *)
C29_RowsReadInsideGrid ==
    Examining =>
        \A cand \in CandidatesOf(words[i + 1].word, placedWords) :
            \A pos \in CellsRead(newGrid, words[i + 1].word, cand.row, cand.col,
                                 cand.direction) : pos[1] \in 0..(GRID_SIZE - 1)

(* the selection the claim gives for a click on the cell at pos *)
SelectionAsStated(grid, sel, pos) ==
    LET cell == grid[pos]
        both == cell.across # NULL /\ cell.down # NULL
    IN  IF sel # NullObject /\ sel.row = pos[1] /\ sel.col = pos[2]
        THEN IF both
             THEN [sel EXCEPT !.direction = IF @ = "across" THEN "down" ELSE "across"]
             ELSE sel
        ELSE [row |-> pos[1], col |-> pos[2],
              direction |-> IF cell.across # NULL THEN "across" ELSE "down"]

C25_Click ==
    puzzleData # NullObject =>
        \A pos \in ShownCells :
            CellClicked(pos) =>
                /\ selectedCell' = SelectionAsStated(puzzleData.grid, selectedCell, pos)
                /\ UNCHANGED <<userInput, isChecking>>

(* C25: a click on a non-empty cell that is selected already toggles the
   direction when the cell belongs to an across and a down word and leaves
   the selection as it is when the cell belongs to one word only; a click
   on another cell, or with no selection, selects (row, col) with direction
   across when the cell has an across word and down otherwise. *)
C25_SelectTogglesOrSelects == [][C25_Click]_vars

(* the selected cell belongs to two words and its direction is down, which
   only a second click on the cell gives *)
C25_Witness ==
    /\ puzzleData # NullObject
    /\ selectedCell # NullObject
    /\ selectedCell.direction = "down"
    /\ puzzleData.grid[<<selectedCell.row, selectedCell.col>>].across # NULL

(* this step is a call of handleInputChange for the focused cell *)
InputStep == typed' = typed + 1

FocusPos == <<focus.row, focus.col>>

(* the char stored by the step, and whether the claim has the step move on *)
StoredChar == userInput'[FocusPos]

(* the next cell in the selected direction when the claim has the step move
   there, NullObject when it has nothing move *)
AdvanceAsStated ==
    IF StoredChar = <<>> \/ selectedCell = NullObject THEN NullObject
    ELSE LET next == IF selectedCell.direction = "across"
                     THEN <<focus.row, focus.col + 1>>
                     ELSE <<focus.row + 1, focus.col>>
         IN  IF InsideGrid(next) /\ next \in ShownCells
             THEN [row |-> next[1], col |-> next[2]]
             ELSE NullObject

C26_Stores ==
    /\ FocusPos \in DOMAIN userInput'
    /\ \A pos \in (DOMAIN userInput \cup DOMAIN userInput') \ {FocusPos} :
          /\ pos \in DOMAIN userInput /\ pos \in DOMAIN userInput'
          /\ userInput'[pos] = userInput[pos]

(* C26 as stated: the step stores the char and moves the selection and the
   focus to the next cell when there is one. *)
C26_Original ==
    [][InputStep =>
          /\ C26_Stores
          /\ IF AdvanceAsStated = NullObject
             THEN UNCHANGED <<selectedCell, focus>>
             ELSE /\ focus' = AdvanceAsStated
                  /\ selectedCell' # NullObject
                  /\ selectedCell'.row = AdvanceAsStated.row
                  /\ selectedCell'.col = AdvanceAsStated.col]_vars

(* C26: Input with a non-empty normalized char and a selected direction
   stores the char under the key of the cell and moves the keyboard focus to
   the next cell in that direction, (row, col+1) for across and (row+1, col)
   for down, when that cell is inside the grid and non-empty; otherwise the
   focus does not move, and with an empty char or no selection it does not
   move either. The selection (selectedCell) is never changed by Input. *)
C26_InputStoresAndAdvancesFocus ==
    [][InputStep =>
          /\ C26_Stores
          /\ selectedCell' = selectedCell
          /\ focus' = IF AdvanceAsStated = NullObject THEN focus
                      ELSE AdvanceAsStated]_vars

(* a char was typed into the selected cell and the focus is on the next
   cell of the selected word, the selection still on the first *)
C26_Witness ==
    /\ puzzleData # NullObject
    /\ selectedCell # NullObject
    /\ focus # NullObject
    /\ <<selectedCell.row, selectedCell.col>> \in DOMAIN userInput
    /\ userInput[<<selectedCell.row, selectedCell.col>>] # <<>>
    /\ FocusPos = NextCell(selectedCell.row, selectedCell.col, selectedCell.direction)

(* activeClueNumber of lines 143-148: the field of the selected direction of
   the selected cell, null when nothing is selected *)
activeClueNumber(grid, sel) ==
    IF sel = NullObject \/ <<sel.row, sel.col>> \notin DOMAIN grid THEN NULL
    ELSE grid[<<sel.row, sel.col>>][sel.direction]

(* C30: whenever a cell is selected, the selected position is a non-empty
   cell of the shown grid and that cell has a clue number for the selected
   direction, so the active clue number is defined. *)
C30_SelectionHasActiveClue ==
    selectedCell # NullObject =>
        /\ puzzleData # NullObject
        /\ <<selectedCell.row, selectedCell.col>> \in ShownCells
        /\ puzzleData.grid[<<selectedCell.row, selectedCell.col>>][selectedCell.direction]
              # NULL
        /\ activeClueNumber(puzzleData.grid, selectedCell) # NULL

(* the selected cell belongs to a down word only, in a puzzle that holds
   input or is checked *)
C30_Witness ==
    /\ puzzleData # NullObject
    /\ selectedCell # NullObject
    /\ puzzleData.grid[<<selectedCell.row, selectedCell.col>>].across = NULL
    /\ selectedCell.direction = "down"
    /\ userInput # NoInput

====
